---- MODULE Spec2Model ----
(***************************************************************************)
(* Model of github.com/jamillosantos/promise: one Promise[int] built by    *)
(* New, Resolved or Rejected, the goroutine New starts (promise.go:59-86)  *)
(* and a set of concurrent Await callers (await.go:7-24), each with its    *)
(* own context.  Every read and write of a promise field is one step, so   *)
(* the unsynchronised accesses interleave.                                 *)
(***************************************************************************)
EXTENDS Integers, Sequences, FiniteSets, TLC

\* ---------------------------------------------------------------- bounds
NumAwaiters == 2
MaxVal == 1

Awaiters == 1..NumAwaiters
Vals == 0..MaxVal

\* ------------------------------------------------------------- constants
\* the zero value of T (T = int in the tests)
Zero == 0
\* the nil error / nil interface
Nil == "nil"
\* state constants, promise.go:23-30
pending == "pending"
fulfilled == "fulfilled"
rejected == "rejected"
\* the sentinel Await returns from its default branch, await.go:22
ErrInvalidState == "ErrInvalidState"
\* ctx.Err() of a cancelled context
Canceled == "context canceled"
\* error values a work unit can return or panic with
WorkErrs == {"some error", Canceled}
\* a panic value that is not an error (panic("some panic"))
NonErr == "some panic"

\* r.(type) == error, promise.go:68-69
IsError(x) == x \in WorkErrs

VARIABLES
  state,    \* p.state
  ch,       \* p.ch: "nil", "open" or "closed"
  result,   \* p.result
  err,      \* p.err
  wpc,      \* position of the goroutine started by New
  wresult,  \* local result of promise.go:78
  werr,     \* local err of promise.go:78
  panicv,   \* value of the panic in flight in the goroutine, Nil when none
  r,        \* local r of promise.go:64
  ctx,      \* ctx[a]: "background" (never done), "active" or "canceled"
  apc,      \* position of each Await call
  abranch,  \* select branch each Await took: "none", "ch" or "ctx"
  aret      \* the pair each Await returns, <<value, error>>

pvars == <<state, ch, result, err>>
wvars == <<wpc, wresult, werr, panicv, r>>
avars == <<apc, abranch, aret>>
vars == <<state, ch, result, err, wpc, wresult, werr, panicv, r, ctx, apc, abranch, aret>>

\* ---------------------------------------------------------- constructors
\* New, promise.go:54-58 and 87: the handle returned to the caller
New == [state |-> pending, ch |-> "open", result |-> Zero, err |-> Nil, wpc |-> "call"]

\* Resolved, promise.go:90-97
Resolved(v) == [state |-> fulfilled, ch |-> "nil", result |-> v, err |-> Nil, wpc |-> "none"]

\* Rejected with the state field of promise.go:101 left out of the literal
Rejected_NoState(e) == [state |-> pending, ch |-> "nil", result |-> Zero, err |-> e, wpc |-> "none"]

\* Rejected, promise.go:99-104
Rejected(e) == [state |-> rejected, ch |-> "nil", result |-> Zero, err |-> e, wpc |-> "none"]

Constructed == {New} \cup {Resolved(v) : v \in Vals} \cup {Rejected(e) : e \in WorkErrs}

Init ==
  /\ \E p \in Constructed :
       /\ state = p.state
       /\ ch = p.ch
       /\ result = p.result
       /\ err = p.err
       /\ wpc = p.wpc
  /\ wresult = Zero
  /\ werr = Nil
  /\ panicv = Nil
  /\ r = Nil
  /\ ctx \in [Awaiters -> {"background", "active", "canceled"}]
  /\ apc = [a \in Awaiters |-> "idle"]
  /\ abranch = [a \in Awaiters |-> "none"]
  /\ aret = [a \in Awaiters |-> <<Zero, Nil>>]

\* the process is alive: an uncaught panic in a goroutine ends the program
Running == wpc # "crashed"

\* ------------------------------------------------- the goroutine of New
\* promise.go:78, f returns (v, e)
FReturns(v, e) ==
  /\ wpc = "call"
  /\ wresult' = v
  /\ werr' = e
  /\ wpc' = "check"
  /\ UNCHANGED <<pvars, panicv, r, ctx, avars>>

\* promise.go:78, f panics with x; the deferred function runs next
FPanics(x) ==
  /\ wpc = "call"
  /\ panicv' = x
  /\ wpc' = "close"
  /\ UNCHANGED <<pvars, wresult, werr, r, ctx, avars>>

\* SetRejected that also keeps the value f returned next to its error
SetRejected_StoresResult ==
  /\ wpc = "check"
  /\ werr # Nil
  /\ state' = rejected
  /\ result' = wresult
  /\ wpc' = "set_err"
  /\ UNCHANGED <<ch, err, wresult, werr, panicv, r, ctx, avars>>

\* promise.go:79-80
SetRejected ==
  /\ wpc = "check"
  /\ werr # Nil
  /\ state' = rejected
  /\ wpc' = "set_err"
  /\ UNCHANGED <<ch, result, err, wresult, werr, panicv, r, ctx, avars>>

\* SetErr with the return of promise.go:82 missing: control falls through to
\* the assignment of promise.go:84
SetErr_NoReturn ==
  /\ wpc = "set_err"
  /\ err' = werr
  /\ state' = fulfilled
  /\ wpc' = "set_result"
  /\ UNCHANGED <<ch, result, wresult, werr, panicv, r, ctx, avars>>

\* promise.go:81-82
SetErr ==
  /\ wpc = "set_err"
  /\ err' = werr
  /\ wpc' = "close"
  /\ UNCHANGED <<state, ch, result, wresult, werr, panicv, r, ctx, avars>>

\* promise.go:79 and 84
SetFulfilled ==
  /\ wpc = "check"
  /\ werr = Nil
  /\ state' = fulfilled
  /\ wpc' = "set_result"
  /\ UNCHANGED <<ch, result, err, wresult, werr, panicv, r, ctx, avars>>

\* SetResult with the assignment of promise.go:85 missing
SetResult_NoStore ==
  /\ wpc = "set_result"
  /\ wpc' = "close"
  /\ UNCHANGED <<pvars, wresult, werr, panicv, r, ctx, avars>>

\* promise.go:85-86
SetResult ==
  /\ wpc = "set_result"
  /\ result' = wresult
  /\ wpc' = "close"
  /\ UNCHANGED <<state, ch, err, wresult, werr, panicv, r, ctx, avars>>

\* DeferClose with the close of promise.go:63 missing
DeferClose_NoClose ==
  /\ wpc = "close"
  /\ wpc' = "recover"
  /\ UNCHANGED <<pvars, wresult, werr, panicv, r, ctx, avars>>

\* promise.go:63, first statement of the deferred function
DeferClose ==
  /\ wpc = "close"
  /\ ch' = "closed"
  /\ wpc' = "recover"
  /\ UNCHANGED <<state, result, err, wresult, werr, panicv, r, ctx, avars>>

\* DeferRecover without the type switch of promise.go:68: every recovered
\* value is turned into a rejection
DeferRecover_AbsorbAll ==
  /\ wpc = "recover"
  /\ r' = panicv
  /\ panicv' = Nil
  /\ wpc' = IF panicv = Nil THEN "done" ELSE "rec_state"
  /\ UNCHANGED <<pvars, wresult, werr, ctx, avars>>

\* promise.go:64-69 and 72: recover and dispatch on the recovered value
DeferRecover ==
  /\ wpc = "recover"
  /\ r' = panicv
  /\ panicv' = Nil
  /\ wpc' = IF panicv = Nil THEN "done"
            ELSE IF IsError(panicv) THEN "rec_state"
            ELSE "repanic"
  /\ UNCHANGED <<pvars, wresult, werr, ctx, avars>>

\* promise.go:70
RecoverSetRejected ==
  /\ wpc = "rec_state"
  /\ state' = rejected
  /\ wpc' = "rec_err"
  /\ UNCHANGED <<ch, result, err, wresult, werr, panicv, r, ctx, avars>>

\* RecoverSetErr followed by a second run of close(p.ch)
RecoverSetErr_ClosesAgain ==
  /\ wpc = "rec_err"
  /\ err' = r
  /\ wpc' = "close"
  /\ UNCHANGED <<state, ch, result, wresult, werr, panicv, r, ctx, avars>>

\* promise.go:71
RecoverSetErr ==
  /\ wpc = "rec_err"
  /\ err' = r
  /\ wpc' = "done"
  /\ UNCHANGED <<state, ch, result, wresult, werr, panicv, r, ctx, avars>>

\* promise.go:73: panic(d) leaves the goroutine uncaught, the program dies
Repanic ==
  /\ wpc = "repanic"
  /\ panicv' = r
  /\ wpc' = "crashed"
  /\ UNCHANGED <<pvars, wresult, werr, r, ctx, avars>>

\* the statements of the goroutine that follow the call of f
WorkerStep ==
  \/ SetRejected
  \/ SetErr
  \/ SetFulfilled
  \/ SetResult
  \/ DeferClose
  \/ DeferRecover
  \/ RecoverSetRejected
  \/ RecoverSetErr
  \/ Repanic

\* ------------------------------------------------------------- contexts
\* the cancel function (or the deadline) of the context of caller a
Cancel(a) ==
  /\ Running
  /\ ctx[a] = "active"
  /\ ctx' = [ctx EXCEPT ![a] = "canceled"]
  /\ UNCHANGED <<pvars, wvars, avars>>

\* ---------------------------------------------------------------- Await
\* a caller enters Await, await.go:7
AwaitCall(a) ==
  /\ Running
  /\ apc[a] = "idle"
  /\ apc' = [apc EXCEPT ![a] = "select"]
  /\ UNCHANGED <<pvars, wvars, ctx, abranch, aret>>

\* AwaitSelectCh that also settles the promise it observed
AwaitSelectCh_Writes(a) ==
  /\ Running
  /\ apc[a] = "select"
  /\ ch = "closed"
  /\ apc' = [apc EXCEPT ![a] = "switch"]
  /\ abranch' = [abranch EXCEPT ![a] = "ch"]
  /\ state' = IF state = pending THEN rejected ELSE state
  /\ UNCHANGED <<ch, result, err, wvars, ctx, aret>>

\* await.go:9: a receive from a closed channel is ready, from an open or a
\* nil channel it is not
AwaitSelectCh(a) ==
  /\ Running
  /\ apc[a] = "select"
  /\ ch = "closed"
  /\ apc' = [apc EXCEPT ![a] = "switch"]
  /\ abranch' = [abranch EXCEPT ![a] = "ch"]
  /\ UNCHANGED <<pvars, wvars, ctx, aret>>

\* AwaitSelectCtx with the return of await.go:14 missing: control falls
\* through to the switch on p.state
AwaitSelectCtx_NoReturn(a) ==
  /\ Running
  /\ apc[a] = "select"
  /\ ctx[a] = "canceled"
  /\ apc' = [apc EXCEPT ![a] = "switch"]
  /\ abranch' = [abranch EXCEPT ![a] = "ctx"]
  /\ UNCHANGED <<pvars, wvars, ctx, aret>>

\* await.go:11-14
AwaitSelectCtx(a) ==
  /\ Running
  /\ apc[a] = "select"
  /\ ctx[a] = "canceled"
  /\ apc' = [apc EXCEPT ![a] = "done"]
  /\ abranch' = [abranch EXCEPT ![a] = "ctx"]
  /\ aret' = [aret EXCEPT ![a] = <<Zero, Canceled>>]
  /\ UNCHANGED <<pvars, wvars, ctx>>

\* await.go:16-21: the read of p.state
AwaitSwitch(a) ==
  /\ Running
  /\ apc[a] = "switch"
  /\ apc' = [apc EXCEPT ![a] = IF state = fulfilled THEN "ret_fulfilled"
                               ELSE IF state = rejected THEN "ret_rejected"
                               ELSE "ret_default"]
  /\ UNCHANGED <<pvars, wvars, ctx, abranch, aret>>

\* await.go:18: return p.result, nil
AwaitReturnFulfilled(a) ==
  /\ Running
  /\ apc[a] = "ret_fulfilled"
  /\ aret' = [aret EXCEPT ![a] = <<result, Nil>>]
  /\ apc' = [apc EXCEPT ![a] = "done"]
  /\ UNCHANGED <<pvars, wvars, ctx, abranch>>

\* await.go:20: the read of p.result in return p.result, p.err
AwaitReadResult(a) ==
  /\ Running
  /\ apc[a] = "ret_rejected"
  /\ aret' = [aret EXCEPT ![a] = <<result, Nil>>]
  /\ apc' = [apc EXCEPT ![a] = "ret_rejected_err"]
  /\ UNCHANGED <<pvars, wvars, ctx, abranch>>

\* await.go:20: the read of p.err, and the return
AwaitReturnRejected(a) ==
  /\ Running
  /\ apc[a] = "ret_rejected_err"
  /\ aret' = [aret EXCEPT ![a] = <<aret[a][1], err>>]
  /\ apc' = [apc EXCEPT ![a] = "done"]
  /\ UNCHANGED <<pvars, wvars, ctx, abranch>>

\* await.go:22: return p.result, ErrInvalidState
AwaitReturnDefault(a) ==
  /\ Running
  /\ apc[a] = "ret_default"
  /\ aret' = [aret EXCEPT ![a] = <<result, ErrInvalidState>>]
  /\ apc' = [apc EXCEPT ![a] = "done"]
  /\ UNCHANGED <<pvars, wvars, ctx, abranch>>

\* one step of the Await call of caller a, from its select on
AwaitStep(a) ==
  \/ AwaitSelectCh(a)
  \/ AwaitSelectCtx(a)
  \/ AwaitSwitch(a)
  \/ AwaitReturnFulfilled(a)
  \/ AwaitReadResult(a)
  \/ AwaitReturnRejected(a)
  \/ AwaitReturnDefault(a)

\* --------------------------------------------------------- specification
Next ==
  \/ \E v \in Vals, e \in WorkErrs \cup {Nil} : FReturns(v, e)
  \/ \E x \in WorkErrs \cup {NonErr} : FPanics(x)
  \/ SetRejected
  \/ SetErr
  \/ SetFulfilled
  \/ SetResult
  \/ DeferClose
  \/ DeferRecover
  \/ RecoverSetRejected
  \/ RecoverSetErr
  \/ Repanic
  \/ \E a \in Awaiters : Cancel(a)
  \/ \E a \in Awaiters : AwaitCall(a)
  \/ \E a \in Awaiters : AwaitSelectCh(a)
  \/ \E a \in Awaiters : AwaitSelectCtx(a)
  \/ \E a \in Awaiters : AwaitSwitch(a)
  \/ \E a \in Awaiters : AwaitReturnFulfilled(a)
  \/ \E a \in Awaiters : AwaitReadResult(a)
  \/ \E a \in Awaiters : AwaitReturnRejected(a)
  \/ \E a \in Awaiters : AwaitReturnDefault(a)

Spec == Init /\ [][Next]_vars

\* The Go scheduler runs every runnable goroutine: the statements after the
\* call of f and the steps of an Await call are taken when they stay enabled.
\* Nothing forces f to return, a caller to call Await, or a context to be
\* cancelled.
FairSpec ==
  /\ Init
  /\ [][Next]_vars
  /\ WF_vars(WorkerStep)
  /\ \A a \in Awaiters : WF_vars(AwaitStep(a))

TypeOK ==
  /\ state \in {pending, fulfilled, rejected}
  /\ ch \in {"nil", "open", "closed"}
  /\ result \in Vals
  /\ err \in WorkErrs \cup {Nil}
  /\ wresult \in Vals
  /\ werr \in WorkErrs \cup {Nil}
  /\ panicv \in WorkErrs \cup {Nil, NonErr}
  /\ r \in WorkErrs \cup {Nil, NonErr}
  /\ aret \in [Awaiters -> Vals \X (WorkErrs \cup {Nil, ErrInvalidState})]

\* ------------------------------------------------------ derived predicates
\* the promise was built by New (Resolved and Rejected leave ch nil)
ByNew == ch # "nil"
\* f returned normally (no panic was raised)
Returned == wpc \notin {"none", "call"} /\ panicv = Nil /\ r = Nil
\* the error f panicked with, Nil when it did not panic with an error
PanicErr == IF IsError(panicv) THEN panicv ELSE IF IsError(r) THEN r ELSE Nil
\* f panicked with a value that is not an error
NonErrPanic == panicv = NonErr \/ r = NonErr
\* what Await owes its caller for the pair f returned
Expected == IF werr = Nil THEN <<wresult, Nil>> ELSE <<Zero, werr>>
\* the outcome stored in the promise
Outcome == IF state = fulfilled THEN <<result, Nil>> ELSE <<Zero, err>>
\* positions of the goroutine ahead of a write to state, result or err
BeforeWrite == {"check", "set_err", "set_result", "rec_state", "rec_err"}

\* ------------------------------------------------------------------ C1
\* C1: for a promise of New whose work unit returns a value, returns an
\* error or panics with an error, the signal is closed only after the
\* terminal state and payload are written: closed implies state Fulfilled
\* or Rejected, and no write to state, result or err is still to come.
C1_ClosedAfterWrites ==
  (ch = "closed" /\ ~NonErrPanic) =>
     /\ state \in {fulfilled, rejected}
     /\ ~(wpc \in BeforeWrite \/ (wpc = "recover" /\ IsError(panicv)))

\* ------------------------------------------------------------------ C2
\* C2: Await on Resolved(v) returns (v, nil) and Await on Rejected(e)
\* returns (zero, e), for any context, cancelled or not.
C2_PreResolvedAwait ==
  \A a \in Awaiters :
    (ch = "nil" /\ apc[a] = "done") =>
       /\ state = fulfilled => aret[a] = <<result, Nil>>
       /\ state = rejected => aret[a] = <<Zero, err>>

\* ------------------------------------------------------------------ C3
\* C3: when the work unit panics with an error e, an Await whose context
\* is never cancelled returns exactly (zero, e).
C3_PanicErrAwait ==
  \A a \in Awaiters :
    (PanicErr # Nil /\ ctx[a] = "background" /\ apc[a] = "done") =>
       aret[a] = <<Zero, PanicErr>>

\* ------------------------------------------------------------------ C4
\* C4: an Await that took the completion branch reads a state that is
\* Fulfilled or Rejected, and never returns ErrInvalidState, whether the
\* work unit returns a value, returns an error or panics with an error.
C4_NoInvalidState ==
  \A a \in Awaiters :
    (ByNew /\ ~NonErrPanic) =>
       /\ apc[a] = "switch" => state \in {fulfilled, rejected}
       /\ apc[a] # "ret_default"
       /\ aret[a][2] # ErrInvalidState

\* ------------------------------------------------------------------ C5
\* C5: two Await calls on one promise that both return through the
\* completion branch return the same (value, error) pair, for every
\* outcome of the work unit including a panic with an error.
C5_SameOutcome ==
  \A a, b \in Awaiters :
    (~NonErrPanic /\ apc[a] = "done" /\ apc[b] = "done"
       /\ abranch[a] = "ch" /\ abranch[b] = "ch") =>
       aret[a] = aret[b]

\* ------------------------------------------------------------------ C6
\* C6: when the work unit of a promise of New returns, an Await with a
\* context that is never cancelled eventually returns, (v, nil) if the
\* work unit returned (v, nil) and (zero, e) if it returned (_, e) with e
\* non-nil, and it has not returned while the work unit is still running.
C6_NotBeforeReturn ==
  \A a \in Awaiters :
    /\ (ByNew /\ ctx[a] = "background" /\ apc[a] = "done") => wpc # "call"
    /\ (Returned /\ ctx[a] = "background" /\ apc[a] = "done") => aret[a] = Expected

C6_ReturnedAwait ==
  /\ []C6_NotBeforeReturn
  /\ \A a \in Awaiters :
       (Returned /\ ctx[a] = "background" /\ apc[a] = "select")
          ~> (apc[a] = "done" /\ aret[a] = Expected)

\* an Await with a background context has returned (zero, e) after the work
\* unit returned a non-zero value together with the error e
C6_Witness ==
  \E a \in Awaiters :
    /\ Returned /\ werr # Nil /\ wresult # Zero
    /\ ctx[a] = "background" /\ apc[a] = "done"
    /\ aret[a] = <<Zero, werr>>

\* ------------------------------------------------------------------ C7
\* C7: an Await whose context is cancelled while the promise is Pending and
\* its signal still open returns (zero, ctx.Err()) in that step; an Await
\* whose context is cancelled returns even when the work unit never does;
\* and what it returned is not changed by what the work unit does later.
C7_CancelStep ==
  \A a \in Awaiters :
    /\ (apc[a] = "select" /\ apc'[a] # "select" /\ ctx[a] = "canceled"
          /\ state = pending /\ ch # "closed")
         => (apc'[a] = "done" /\ aret'[a] = <<Zero, Canceled>>)
    /\ apc[a] = "done" => (apc'[a] = "done" /\ aret'[a] = aret[a])

C8_ClosedIffSettled ==
  (ByNew /\ ~NonErrPanic) => (ch = "closed" <=> state # pending)

\* ------------------------------------------------------------------ C9
\* C9: state is write-once: a promise of New starts Pending, a pre-resolved
\* one starts terminal; the only change of state is from Pending to
\* Fulfilled or Rejected, and a state that left Pending never changes.
C9_StateStep ==
  /\ state # pending => state' = state
  /\ state' # state => state' \in {fulfilled, rejected}

C9_WriteOnce ==
  /\ [](ch = "nil" => state # pending)
  /\ [](wpc = "call" => state = pending)
  /\ [][C9_StateStep]_vars

\* the goroutine of a rejected promise has finished after an Await returned
\* and a context was cancelled
C9_Witness ==
  /\ ByNew /\ state = rejected /\ wpc = "done" /\ werr # Nil
  /\ \E a, b \in Awaiters : apc[a] = "done" /\ abranch[a] = "ch" /\ ctx[b] = "canceled"

\* ----------------------------------------------------------------- C10
\* C10: only the Await whose own context is cancelled returns the
\* cancellation error; an Await whose context is not cancelled stays in its
\* select until the promise has settled and then returns the promise's
\* outcome.
C10_CancelPerCall ==
  \A a \in Awaiters :
    (ByNew /\ ~NonErrPanic) =>
       /\ abranch[a] = "ctx" => (ctx[a] = "canceled" /\ aret[a] = <<Zero, Canceled>>)
       /\ (ctx[a] # "canceled" /\ apc[a] \notin {"idle", "select"}) => state # pending
       /\ (ctx[a] # "canceled" /\ apc[a] = "done") => aret[a] = Outcome

\* ----------------------------------------------------------------- C11
\* C11: while the work unit is running the promise stays Pending with its
\* signal open, whatever contexts were cancelled and whichever Await calls
\* returned; once the work unit returns the promise becomes Fulfilled or
\* Rejected with the work unit's outcome and its signal is closed, and an
\* Await with a context that is never cancelled, made after another Await
\* returned the cancellation error, returns that outcome.
C11_PendingWhileRunning ==
  wpc = "call" => (state = pending /\ ch = "open" /\ result = Zero /\ err = Nil)

C11_LeakedThenSettles ==
  /\ []C11_PendingWhileRunning
  /\ Returned ~> (wpc = "done" /\ ch = "closed" /\ state # pending /\ Outcome = Expected)
  /\ \A a, b \in Awaiters :
       (Returned /\ apc[b] = "done" /\ abranch[b] = "ctx"
          /\ apc[a] = "select" /\ ctx[a] = "background")
          ~> (apc[a] = "done" /\ aret[a] = Expected)

\* one Await returned the cancellation error, the work unit returned later,
\* and an Await with a background context returned the work unit's outcome
C11_Witness ==
  \E a, b \in Awaiters :
    /\ Returned /\ wpc = "done" /\ ch = "closed" /\ wresult # Zero
    /\ apc[b] = "done" /\ abranch[b] = "ctx" /\ aret[b] = <<Zero, Canceled>>
    /\ apc[a] = "done" /\ abranch[a] = "ch" /\ ctx[a] = "background"
    /\ aret[a] = Expected /\ aret[a] # aret[b]

\* ----------------------------------------------------------------- C12
\* C12: when the work unit panics with a value that is not an error, the
\* promise never becomes Fulfilled or Rejected and stores nothing, the panic
\* is raised again and ends the program, and no Await returns through the
\* completion branch a success or an error taken from the panic.
C12_NotAbsorbed ==
  NonErrPanic =>
     /\ state = pending /\ result = Zero /\ err = Nil
     /\ NonErr \in {panicv, r}
     /\ \A a \in Awaiters :
          (apc[a] = "done" /\ abranch[a] = "ch") =>
             (aret[a][1] = Zero /\ aret[a][2] \notin WorkErrs \cup {Nil, NonErr})

C13_Shape ==
  ch = "nil" =>
     /\ wpc = "none" /\ wresult = Zero /\ werr = Nil /\ panicv = Nil /\ r = Nil
     /\ \/ state = fulfilled /\ result \in Vals /\ err = Nil
        \/ state = rejected /\ result = Zero /\ err \in WorkErrs

C13_Frozen ==
  ch = "nil" => (pvars' = pvars /\ wvars' = wvars)

C13_PreResolved ==
  /\ []C13_Shape
  /\ [][C13_Frozen]_vars

\* a promise of Rejected after an Await on it returned and another blocks
C13_Witness ==
  /\ ch = "nil" /\ state = rejected /\ err # Nil
  /\ \E a, b \in Awaiters : apc[a] = "done" /\ apc[b] = "select"

\* ----------------------------------------------------------------- C14
\* C14: no step of an Await call, whichever branch it takes, changes state,
\* result, err or the signal of the promise; a step that changes one of them
\* is a step of the goroutine of New.
C14_AwaitStepFrame ==
  /\ (apc' # apc \/ abranch' # abranch \/ aret' # aret) => pvars' = pvars
  /\ pvars' # pvars => (wpc' # wpc /\ avars' = avars /\ ctx' = ctx)

C14_AwaitObserves ==
  [][C14_AwaitStepFrame]_vars

\* two Await calls have returned, one through each branch of the select,
\* and the promise holds what the goroutine stored
C14_Witness ==
  \E a, b \in Awaiters :
    /\ apc[a] = "done" /\ abranch[a] = "ch"
    /\ apc[b] = "done" /\ abranch[b] = "ctx"
    /\ wpc = "done" /\ state = fulfilled /\ result = wresult /\ result # Zero

\* ----------------------------------------------------------------- C15
\* C15: result is the zero value unless state is Fulfilled and err is nil
\* unless state is Rejected; a promise whose work unit returned (v, e) with e
\* non-nil or panicked with an error ends Rejected with the zero result, and
\* one whose work unit returned (v, nil) ends Fulfilled with err nil.
C15_PayloadMatchesState ==
  /\ state # fulfilled => result = Zero
  /\ state # rejected => err = Nil
  /\ (wpc = "done" /\ (werr # Nil \/ PanicErr # Nil)) =>
        (state = rejected /\ result = Zero /\ err = (IF werr # Nil THEN werr ELSE PanicErr))
  /\ (wpc = "done" /\ Returned /\ werr = Nil) =>
        (state = fulfilled /\ result = wresult /\ err = Nil)

\* the goroutine finished after f returned a non-zero value with an error
C15_Witness ==
  /\ wpc = "done" /\ Returned /\ werr # Nil /\ wresult # Zero
  /\ state = rejected /\ result = Zero /\ err = werr

\* ----------------------------------------------------------------- C16
\* C16: the signal of a promise of New is closed at most once, and it is
\* closed once the work unit has returned or panicked, whatever the Await
\* callers are doing; the close never waits.
C16_CloseGuard ==
  /\ wpc = "close" => (ch = "open" /\ ENABLED DeferClose)
  /\ (ByNew /\ wpc \in {"recover", "rec_state", "rec_err", "repanic", "done", "crashed"})
        => ch = "closed"
  /\ wpc \in {"call", "check", "set_err", "set_result"} => ch = "open"

C16_CloseStep ==
  /\ ch = "closed" => ch' = "closed"
  /\ ch' # ch => (ch = "open" /\ ch' = "closed" /\ wpc = "close" /\ avars' = avars)

C16_ClosedOnce ==
  /\ []C16_CloseGuard
  /\ [][C16_CloseStep]_vars
  /\ (ByNew /\ wpc # "call") ~> ch = "closed"

\* the goroutine finished after an error panic with the signal closed and
\* no Await ever called
C16_Witness ==
  /\ wpc = "done" /\ PanicErr # Nil /\ ch = "closed"
  /\ \A a \in Awaiters : apc[a] = "idle"

\* ----------------------------------------------------------------- C17
\* C17: when the signal is closed and the caller's context is cancelled at
\* the select of Await, both branches can be taken, and what Await returns
\* is either the promise's stored outcome or (zero, ctx.Err()).
C17_NoTieBreak ==
  \A a \in Awaiters :
    (ByNew /\ ~NonErrPanic /\ ch = "closed" /\ ctx[a] = "canceled") =>
       /\ apc[a] = "select" => (ENABLED AwaitSelectCh(a) /\ ENABLED AwaitSelectCtx(a))
       /\ apc[a] = "done" => (aret[a] = Outcome \/ aret[a] = <<Zero, Canceled>>)

\* ----------------------------------------------------------------- C18
\* C18: every return of Await is either a nil error with the value stored
\* by a Fulfilled promise, or a non-nil error with the zero value.
C18_ReturnShape ==
  \A a \in Awaiters :
    apc[a] = "done" =>
       /\ aret[a][2] = Nil => (state = fulfilled /\ aret[a][1] = result)
       /\ aret[a][2] # Nil => aret[a][1] = Zero

\* ----------------------------------------------------------------- C19
\* C19: for a promise of New, state Fulfilled implies result holds the value
\* the work unit returned, and state Rejected implies err holds the work
\* unit's non-nil error.
C19_PayloadBeforeState ==
  ByNew =>
     /\ state = fulfilled => result = wresult
     /\ state = rejected =>
          (err # Nil /\ err = (IF werr # Nil THEN werr ELSE PanicErr))

====
